---- MODULE Spec2Model ----
(***************************************************************************)
(* Model of "Data Pipeline/etl.py": a batch ETL job that turns raw song    *)
(* and log records into five relations (songs, artists, users, timetable,  *)
(* songsplay) written in overwrite mode.                                   *)
(*                                                                         *)
(* A relation is a bag of rows; it is modelled as a sequence of records    *)
(* whose order carries no meaning (comparisons of contents go through      *)
(* BagOf).  A storage location holds the relation last written to it.      *)
(* A null string column is the value NULL; the numeric columns ts and      *)
(* start_time are   <<>>  when null and  <<n>>  when they hold n.  A        *)
(* generated songplay_id is the record [partition, row] that stands for    *)
(* the 64-bit value  partition * 2^33 + row.                               *)
(* Timestamps are taken in UTC (worker and session time zone).             *)
(***************************************************************************)
EXTENDS Integers, Sequences, FiniteSets

VARIABLES
    pc,          \* position of the process: the statement to run next
    call,        \* index in main_calls of the call main() is in (0: module level)
    dl_cfg,      \* the settings file dl.cfg on disk (input)
    config,      \* the ConfigParser object: section name -> set of option names
    environ,     \* the names set in os.environ by the module
    spark,       \* TRUE once create_spark_session has returned a handle
    song_data,   \* the raw song records at input_data + song_data/*/*/*/*.json (input)
    log_data,    \* the raw log records at input_data + log-data/*.json (input)
    store,       \* output location -> relation held there
    df,          \* process_song_data: df, the temp view "songs"
    log_df,      \* process_log_data: df after the page filter, the view "log_data"
    time_df,     \* process_log_data: df with start_time, the view "time"
    song_df,     \* process_log_data: the view "songs_table"
    df_artists,  \* process_log_data: the view "artists_table"
    io,          \* history: the reads and writes this process has done, in order
    run,         \* history: number of the current run of the script
    first        \* history: the store as the first completed run left it

vars == <<pc, call, dl_cfg, config, environ, spark, song_data, log_data, store,
          df, log_df, time_df, song_df, df_artists, io, run, first>>

\* ------------------------------------------------------------------ bounds

\* Largest number of raw song records in the input.
MaxSongs == 2
\* Largest number of raw log records in the input.
MaxEvents == 2
\* Largest number of successive runs of the script.
MaxRuns == 2
\* Largest number of joined rows for which every order of the rows is
\* followed when the ids are generated.
MaxReordered == 2

\* ------------------------------------------------------------- sequences

NULL == "NULL"

Range(s) == {s[i] : i \in DOMAIN s}

RECURSIVE Concat(_)
\* The concatenation of a sequence of sequences.
Concat(ss) == IF ss = <<>> THEN <<>> ELSE Head(ss) \o Concat(Tail(ss))

\* The bag of rows of a relation: row -> number of copies.
BagOf(s) == [x \in Range(s) |-> Cardinality({i \in DOMAIN s : s[i] = x})]

\* Comparison in a SQL predicate: a null operand never compares equal.
SqlEq(a, b) == a # NULL /\ b # NULL /\ a = b

\* SELECT DISTINCT: one copy of every row.
Distinct(s) ==
    Concat([i \in DOMAIN s |->
              IF \E j \in 1..(i - 1) : s[j] = s[i] THEN <<>> ELSE <<s[i]>>])

\* -------------------------------------------------------------- calendar

\* The civil date [y, m, d] of the day `days` days after 1970-01-01.
CivilFromDays(days) ==
    LET z   == days + 719468
        era == z \div 146097
        doe == z - era * 146097
        yoe == (doe - doe \div 1460 + doe \div 36524 - doe \div 146096) \div 365
        doy == doe - (365 * yoe + yoe \div 4 - yoe \div 100)
        mp  == (5 * doy + 2) \div 153
        d   == doy - (153 * mp + 2) \div 5 + 1
        m   == IF mp < 10 THEN mp + 3 ELSE mp - 9
        y   == yoe + era * 400 + (IF m <= 2 THEN 1 ELSE 0)
    IN  [y |-> y, m |-> m, d |-> d]

IsLeap(y) == (y % 4 = 0 /\ y % 100 # 0) \/ y % 400 = 0

\* Day of the year, 1 for January 1st.
DayOfYear(y, m, d) ==
    LET before == <<0, 31, 59, 90, 120, 151, 181, 212, 243, 273, 304, 334>>
    IN  before[m] + d + (IF m > 2 /\ IsLeap(y) THEN 1 ELSE 0)

\* Number of ISO weeks of year y.
IsoWeeksIn(y) ==
    LET p(x) == (x + x \div 4 - x \div 100 + x \div 400) % 7
    IN  IF p(y) = 4 \/ p(y - 1) = 3 THEN 53 ELSE 52

\* SQL hour(): hour of the day of a timestamp of t seconds.
hour(t) == (t % 86400) \div 3600

\* SQL dayofmonth().
dayofmonth(t) == CivilFromDays(t \div 86400).d

\* SQL month().
month(t) == CivilFromDays(t \div 86400).m

\* SQL year().
year(t) == CivilFromDays(t \div 86400).y

\* SQL dayofweek(): 1 = Sunday, ..., 7 = Saturday.
dayofweek(t) == ((t \div 86400 + 4) % 7) + 1

\* SQL weekofyear(): the ISO 8601 week number.
weekofyear(t) ==
    LET days == t \div 86400
        c    == CivilFromDays(days)
        wd   == ((days + 3) % 7) + 1
        w    == (DayOfYear(c.y, c.m, c.d) - wd + 10) \div 7
    IN  IF w < 1 THEN IsoWeeksIn(c.y - 1)
        ELSE IF w > IsoWeeksIn(c.y) THEN 1
        ELSE w

\* ---------------------------------------------------------------- inputs

\* Raw song records the input is drawn from.  Records 1 and 2 share a song_id
\* and an artist, records 1 and 3 share a title, record 4 has no song_id and
\* record 5 no artist_id.
CatalogPool ==
    << [song_id |-> "S1", title |-> "Song A", artist_id |-> "P1", year |-> 2000,
        duration |-> "180.0", artist_name |-> "Band X", artist_location |-> "NYC",
        artist_latitude |-> "40.7", artist_longitude |-> "-74.0"],
       [song_id |-> "S1", title |-> "Song B", artist_id |-> "P1", year |-> 2000,
        duration |-> "180.0", artist_name |-> "Band X", artist_location |-> "NYC",
        artist_latitude |-> "40.7", artist_longitude |-> "-74.0"],
       [song_id |-> "S2", title |-> "Song A", artist_id |-> "P2", year |-> 2001,
        duration |-> "200.5", artist_name |-> "Band Y", artist_location |-> "LA",
        artist_latitude |-> "34.0", artist_longitude |-> "-118.2"],
       [song_id |-> NULL, title |-> "Song C", artist_id |-> "P1", year |-> 2002,
        duration |-> "90.0", artist_name |-> "Band X", artist_location |-> "NYC",
        artist_latitude |-> "40.7", artist_longitude |-> "-74.0"],
       [song_id |-> "S3", title |-> "Song C", artist_id |-> NULL, year |-> 2003,
        duration |-> "61.2", artist_name |-> "Band Z", artist_location |-> NULL,
        artist_latitude |-> NULL, artist_longitude |-> NULL] >>

\* Raw log records the input is drawn from.  Records 1 and 2 are plays by the
\* same user, record 2 of a song no catalog record has; records 3 and 6 are
\* not plays; record 4 has no userId and records 5 and 6 no ts.
EventPool ==
    << [page |-> "NextSong", ts |-> <<90061999>>, userId |-> "10",
        firstName |-> "Sam", lastName |-> "Lee", gender |-> "M", level |-> "free",
        song |-> "Song A", artist |-> "Band X", sessionId |-> 5,
        location |-> "NYC", userAgent |-> "UA"],
       [page |-> "NextSong", ts |-> <<1999>>, userId |-> "10",
        firstName |-> "Sam", lastName |-> "Lee", gender |-> "M", level |-> "free",
        song |-> "Song Z", artist |-> "Band X", sessionId |-> 5,
        location |-> "NYC", userAgent |-> "UA"],
       [page |-> "Home", ts |-> <<2000000000>>, userId |-> "11",
        firstName |-> "Ann", lastName |-> "Roe", gender |-> "F", level |-> "paid",
        song |-> "Song A", artist |-> "Band X", sessionId |-> 6,
        location |-> "LA", userAgent |-> "UB"],
       [page |-> "NextSong", ts |-> <<172800000>>, userId |-> NULL,
        firstName |-> NULL, lastName |-> NULL, gender |-> NULL, level |-> "free",
        song |-> "Song A", artist |-> "Band Y", sessionId |-> 7,
        location |-> "LA", userAgent |-> "UB"],
       [page |-> "NextSong", ts |-> <<>>, userId |-> "12",
        firstName |-> "Kim", lastName |-> "Poe", gender |-> "F", level |-> "paid",
        song |-> "Song A", artist |-> "Band X", sessionId |-> 8,
        location |-> "NYC", userAgent |-> "UA"],
       [page |-> "Logout", ts |-> <<>>, userId |-> "11",
        firstName |-> "Ann", lastName |-> "Roe", gender |-> "F", level |-> "paid",
        song |-> NULL, artist |-> NULL, sessionId |-> 6,
        location |-> "LA", userAgent |-> "UB"] >>

\* The relations of 1..max records of a pool, each bag of records taken once.
Relations(pool, max) ==
    LET Idx == UNION {[1..n -> DOMAIN pool] : n \in 1..max}
        Sorted(s) == \A i \in DOMAIN s : \A j \in DOMAIN s : i < j => s[i] <= s[j]
    IN  {[i \in DOMAIN s |-> pool[s[i]]] : s \in {t \in Idx : Sorted(t)}}

\* The states of the settings file: absent, or present with or without the
\* AWS section, which holds any of the two keys.
SettingsFiles ==
    {[exists |-> FALSE, sections |-> {}, keys |-> {}]}
    \cup {[exists |-> TRUE, sections |-> {}, keys |-> {}]}
    \cup {[exists |-> TRUE, sections |-> {"AWS"}, keys |-> k] :
            k \in SUBSET {"AWS_ACCESS_KEY_ID", "AWS_SECRET_ACCESS_KEY"}}

Locations == {"songs", "artists", "users", "timetable", "songsplay"}

\* What the output location may hold before the first run: nothing, or the
\* output of an older run over other data.
EmptyStore == [l \in Locations |-> <<>>]

StaleStore ==
    [EmptyStore EXCEPT
       !["songs"] = << [song_id |-> "S9", title |-> "Song Z", artist_id |-> "P9",
                        year |-> 1999, duration |-> "10.0"] >>,
       !["artists"] = << [artist_id |-> "P9", name |-> "Band X", location |-> NULL,
                          latitude |-> NULL, longitude |-> NULL] >>,
       !["users"] = << [user_id |-> "99", first_name |-> "Old", last_name |-> "Row",
                        gender |-> "M", level |-> "free"] >>,
       !["timetable"] = << [start_time |-> <<0>>, hour |-> 0, day |-> 1, week |-> 1,
                            month |-> 1, year |-> 1970, weekday |-> 5] >>,
       !["songsplay"] = << [songplay_id |-> [partition |-> 0, row |-> 0],
                            start_time |-> <<0>>, month |-> 1,
                            year |-> 1970, user_id |-> "99", level |-> "free",
                            song_id |-> "S9", artist_id |-> "P9", session_id |-> 1,
                            location |-> NULL, user_agent |-> "UA"] >> ]

\* ---------------------------------------------------------------- queries

\* ConfigParser.read: the sections of the file; a file that does not exist is
\* skipped and leaves the parser empty.
config_read(file) ==
    IF file.exists
    THEN [s \in file.sections |-> file.keys]
    ELSE [s \in {} |-> {}]

\* A lookup that falls back to a default instead of raising.
HasOptionOrFallback(c, section, key) == TRUE

\* config[section][key] finds a value (otherwise it raises KeyError).
HasOption(c, section, key) == section \in DOMAIN c /\ key \in c[section]

\* main() with the two transforms in the other order.
main_calls_log_first ==
    <<"create_spark_session", "process_log_data", "process_song_data">>

\* The calls of main(), in order.
main_calls == <<"create_spark_session", "process_song_data", "process_log_data">>

\* The first statement of a function.
Entry(f) ==
    CASE f = "create_spark_session" -> "create_spark_session"
      [] f = "process_song_data"    -> "song_read"
      [] f = "process_log_data"     -> "log_read"

\* DataFrameWriter.mode('append').
AppendMode(old, rows) == old \o rows

\* DataFrameWriter.mode('overwrite'): the relation at the destination after
\* writing rows over old.
Overwrite(old, rows) == rows

\* SELECT DISTINCT song_id, title, artist_id, year, duration FROM songs
\* WHERE song_id IS NOT NULL
songs_table(v) ==
    LET Keep(r) == r.song_id # NULL
        rows    == SelectSeq(v, Keep)
    IN  Distinct([i \in DOMAIN rows |->
                    [song_id |-> rows[i].song_id, title |-> rows[i].title,
                     artist_id |-> rows[i].artist_id, year |-> rows[i].year,
                     duration |-> rows[i].duration]])

\* SELECT artist_id, artist_name as name, ... FROM songs
\* WHERE artist_id IS NOT NULL
artists_table(v) ==
    LET Keep(r) == r.artist_id # NULL
        rows    == SelectSeq(v, Keep)
    IN  [i \in DOMAIN rows |->
           [artist_id |-> rows[i].artist_id, name |-> rows[i].artist_name,
            location |-> rows[i].artist_location,
            latitude |-> rows[i].artist_latitude,
            longitude |-> rows[i].artist_longitude]]

\* No filter on page.
page_filter_none(v) == v

\* df.filter(df.page == 'NextSong')
page_filter(v) ==
    LET Keep(r) == SqlEq(r.page, "NextSong")
    IN  SelectSeq(v, Keep)

\* SELECT userId as user_id, firstName as first_name, lastName as last_name,
\* gender, level FROM log_data WHERE userId IS NOT NULL
users_table(v) ==
    LET Keep(r) == r.userId # NULL
        rows    == SelectSeq(v, Keep)
    IN  [i \in DOMAIN rows |->
           [user_id |-> rows[i].userId, first_name |-> rows[i].firstName,
            last_name |-> rows[i].lastName, gender |-> rows[i].gender,
            level |-> rows[i].level]]

\* The udf's lambda raises on x: x/1000 of None is a TypeError.
get_timestamp_raises(x) == x = <<>>

\* datetime.fromtimestamp(x/1000).replace(microsecond=0), as whole seconds
\* since the epoch, for x that holds a number.
get_timestamp(x) == <<x[1] \div 1000>>

\* df.withColumn('start_time', get_timestamp('ts'))
with_start_time(v) ==
    [i \in DOMAIN v |->
       [page |-> v[i].page, ts |-> v[i].ts, userId |-> v[i].userId,
        firstName |-> v[i].firstName, lastName |-> v[i].lastName,
        gender |-> v[i].gender, level |-> v[i].level, song |-> v[i].song,
        artist |-> v[i].artist, sessionId |-> v[i].sessionId,
        location |-> v[i].location, userAgent |-> v[i].userAgent,
        start_time |-> get_timestamp(v[i].ts)]]

\* SELECT start_time, hour(start_time) as hour, ... FROM time
\* WHERE start_time IS NOT NULL
time_table(v) ==
    LET Keep(r) == r.start_time # <<>>
        rows    == SelectSeq(v, Keep)
    IN  [i \in DOMAIN rows |->
           LET t == rows[i].start_time[1]
           IN  [start_time |-> rows[i].start_time, hour |-> hour(t),
                day |-> dayofmonth(t), week |-> weekofyear(t),
                month |-> month(t), year |-> year(t), weekday |-> dayofweek(t)]]

\* The join condition of songs_table: ss.title = se.song
title_matches(ss, se) == SqlEq(ss.title, se.song)

\* The join condition of artists_table: se.artist == at.name
name_matches(se, at) == SqlEq(se.artist, at.name)

\* FROM time se JOIN songs_table ss on (ss.title = se.song)
\*              JOIN artists_table as at on (se.artist == at.name)
\* The joined rows, each with the rows e, s, a it is made of.
songplays_join(se, ss, at) ==
    Concat([i \in DOMAIN se |->
      Concat([j \in DOMAIN ss |->
        IF title_matches(ss[j], se[i])
        THEN Concat([k \in DOMAIN at |->
               IF name_matches(se[i], at[k])
               THEN << [e |-> se[i], s |-> ss[j], a |-> at[k]] >>
               ELSE <<>>])
        ELSE <<>>])])

\* monotonically_increasing_id() over n rows spread over two partitions, of
\* which k are in partition 0 and the others in partition 1: the ids in increasing order, each the
\* partition index in the upper bits and the row's number in its partition.
monotonically_increasing_id(n, k) ==
    [i \in 1..n |->
       IF i <= k THEN [partition |-> 0, row |-> i - 1]
                 ELSE [partition |-> 1, row |-> i - k - 1]]

\* The orders in which n joined rows may meet the ids: any order; for more
\* than MaxReordered rows only the order of the join is followed.
RowOrders(n) ==
    IF n <= MaxReordered
    THEN {f \in [1..n -> 1..n] :
            \A i \in 1..n : \A j \in 1..n : i # j => f[i] # f[j]}
    ELSE {[i \in 1..n |-> i]}

\* SELECT monotonically_increasing_id() as songplay_id, start_time,
\*        month(start_time) as month, year(start_time) as year, ...
\* over the joined rows, of which k are in partition 0 and which meet the
\* ids in the order `order`; the rows are listed by increasing songplay_id.
songplays_table(se, ss, at, order, k) ==
    LET joined == songplays_join(se, ss, at)
        ids    == monotonically_increasing_id(Len(joined), k)
    IN  [n \in DOMAIN joined |->
           LET r == joined[order[n]]
               t == r.e.start_time[1]
           IN  [songplay_id |-> ids[n],
                start_time |-> r.e.start_time,
                month |-> month(t), year |-> year(t),
                user_id |-> r.e.userId, level |-> r.e.level,
                song_id |-> r.s.song_id,
                artist_id |-> r.a.artist_id,
                session_id |-> r.e.sessionId,
                location |-> r.e.location,
                user_agent |-> r.e.userAgent]]

\* spark.read.parquet(output_data+'songs/*/*/*'): the glob names the files
\* below the year= and artist_id= directories, so the partition columns are
\* not recovered and the frame has the columns song_id, title, duration.
read_songs(rel) ==
    [i \in DOMAIN rel |->
       [song_id |-> rel[i].song_id, title |-> rel[i].title,
        duration |-> rel[i].duration]]

\* spark.read.parquet(output_data + 'artists/*')
read_artists(rel) == rel

\* Whether line 133 raises AnalysisException: an empty songs relation was
\* written without any partition directory, so the glob matches nothing.
read_songs_raises(st) ==
    IF st["songs"] = <<>> THEN {TRUE} ELSE {FALSE}

\* Whether line 134 raises AnalysisException: for an empty artists relation
\* the writer has left a data file holding the schema or no data file at
\* all, depending on the engine's version; without one the schema cannot be
\* inferred.
read_artists_raises(st) ==
    IF st["artists"] = <<>> THEN {TRUE, FALSE} ELSE {FALSE}

\* ------------------------------------------------------------------ state

Init ==
    /\ pc = "config_read"
    /\ call = 0
    /\ dl_cfg \in SettingsFiles
    /\ config = config_read([exists |-> FALSE, sections |-> {}, keys |-> {}])
    /\ environ = {}
    /\ spark = FALSE
    /\ song_data \in Relations(CatalogPool, MaxSongs)
    /\ log_data \in Relations(EventPool, MaxEvents)
    /\ store \in {EmptyStore, StaleStore}
    /\ df = <<>>
    /\ log_df = <<>>
    /\ time_df = <<>>
    /\ song_df = <<>>
    /\ df_artists = <<>>
    /\ io = <<>>
    /\ run = 1
    /\ first = EmptyStore

inputs == <<dl_cfg, song_data, log_data>>
frames == <<df, log_df, time_df, song_df, df_artists>>
history == <<run, first>>

\* The return of the call main() is in: on to the next call, or the end.
Return ==
    IF call < Len(main_calls)
    THEN call' = call + 1 /\ pc' = Entry(main_calls[call + 1])
    ELSE call' = call /\ pc' = "done"

\* ------------------------------------------------------------ module level

\* config = configparser.ConfigParser(); config.read('dl.cfg')
ReadConfig ==
    /\ pc = "config_read"
    /\ config' = config_read(dl_cfg)
    /\ pc' = "set_access_key"
    /\ UNCHANGED <<call, environ, spark, store, io, inputs, frames, history>>

\* os.environ['AWS_ACCESS_KEY_ID'] = config['AWS']['AWS_ACCESS_KEY_ID']
SetAccessKey ==
    /\ pc = "set_access_key"
    /\ IF HasOption(config, "AWS", "AWS_ACCESS_KEY_ID")
       THEN environ' = environ \cup {"AWS_ACCESS_KEY_ID"} /\ pc' = "set_secret_key"
       ELSE environ' = environ /\ pc' = "KeyError"
    /\ UNCHANGED <<call, config, spark, store, io, inputs, frames, history>>

\* os.environ['AWS_SECRET_ACCESS_KEY'] = config['AWS']['AWS_SECRET_ACCESS_KEY']
SetSecretKey ==
    /\ pc = "set_secret_key"
    /\ IF HasOption(config, "AWS", "AWS_SECRET_ACCESS_KEY")
       THEN environ' = environ \cup {"AWS_SECRET_ACCESS_KEY"} /\ pc' = "main"
       ELSE environ' = environ /\ pc' = "KeyError"
    /\ UNCHANGED <<call, config, spark, store, io, inputs, frames, history>>

\* if __name__ == "__main__": main()
Main ==
    /\ pc = "main"
    /\ call' = 1
    /\ pc' = Entry(main_calls[1])
    /\ UNCHANGED <<config, environ, spark, store, io, inputs, frames, history>>

\* spark = create_spark_session()
CreateSparkSession ==
    /\ pc = "create_spark_session"
    /\ spark' = TRUE
    /\ Return
    /\ UNCHANGED <<config, environ, store, io, inputs, frames, history>>

\* ------------------------------------------------------- process_song_data

\* df = spark.read.json(song_data); df.createOrReplaceTempView('songs')
ReadSongData ==
    /\ pc = "song_read"
    /\ df' = song_data
    /\ io' = Append(io, "read:song_data")
    /\ pc' = "song_write_songs"
    /\ UNCHANGED <<call, config, environ, spark, store, inputs,
                   log_df, time_df, song_df, df_artists, history>>

\* songs_table = spark.sql(...); songs_table.write.mode('overwrite')
\*     .partitionBy("year","artist_id").parquet(output_data+"songs/")
WriteSongs ==
    /\ pc = "song_write_songs"
    /\ store' = [store EXCEPT !["songs"] = Overwrite(@, songs_table(df))]
    /\ io' = Append(io, "write:songs")
    /\ pc' = "song_write_artists"
    /\ UNCHANGED <<call, config, environ, spark, inputs, frames, history>>

\* artists_table = spark.sql(...)
\* artists_table.write.mode('overwrite').parquet(output_data+"artists/")
WriteArtists ==
    /\ pc = "song_write_artists"
    /\ store' = [store EXCEPT !["artists"] = Overwrite(@, artists_table(df))]
    /\ io' = Append(io, "write:artists")
    /\ Return
    /\ UNCHANGED <<config, environ, spark, inputs, frames, history>>

\* -------------------------------------------------------- process_log_data

\* df = spark.read.json(log_data); df = df.filter(df.page == 'NextSong')
\* df.createOrReplaceTempView('log_data')
ReadLogData ==
    /\ pc = "log_read"
    /\ log_df' = page_filter(log_data)
    /\ io' = Append(io, "read:log_data")
    /\ pc' = "log_write_users"
    /\ UNCHANGED <<call, config, environ, spark, store, inputs,
                   df, time_df, song_df, df_artists, history>>

\* users_table = spark.sql(...)
\* users_table.write.mode('overwrite').parquet(output_data+'users/')
WriteUsers ==
    /\ pc = "log_write_users"
    /\ store' = [store EXCEPT !["users"] = Overwrite(@, users_table(log_df))]
    /\ io' = Append(io, "write:users")
    /\ pc' = "log_write_time"
    /\ UNCHANGED <<call, config, environ, spark, inputs, frames, history>>

\* df = df.withColumn('start_time', get_timestamp('ts')); the view 'time';
\* time_table = spark.sql(...); time_table.write.mode('overwrite')
\*     .partitionBy("year","month").parquet(output_data+'timetable/')
\* The udf runs when the write evaluates the frame.  When it raises, the job
\* fails after the overwrite has cleared the destination.
WriteTime ==
    /\ pc = "log_write_time"
    /\ IF \E i \in DOMAIN log_df : get_timestamp_raises(log_df[i].ts)
       THEN /\ store' = [store EXCEPT !["timetable"] = <<>>]
            /\ time_df' = time_df
            /\ io' = io
            /\ pc' = "PythonException"
       ELSE /\ time_df' = with_start_time(log_df)
            /\ store' = [store EXCEPT
                           !["timetable"] = Overwrite(@, time_table(time_df'))]
            /\ io' = Append(io, "write:timetable")
            /\ pc' = "log_read_catalog"
    /\ UNCHANGED <<call, config, environ, spark, inputs,
                   df, log_df, song_df, df_artists, history>>

\* song_df = spark.read.parquet(output_data+'songs/*/*/*')
ReadSongsOutput ==
    /\ pc = "log_read_catalog"
    /\ \E raises \in read_songs_raises(store) :
         IF raises
         THEN io' = io /\ pc' = "AnalysisException"
         ELSE io' = Append(io, "read:songs") /\ pc' = "log_read_artists"
    /\ UNCHANGED <<call, config, environ, spark, store, inputs, frames, history>>

\* df_artists = spark.read.parquet(output_data + 'artists/*')
\* song_df.createOrReplaceTempView("songs_table")
\* df_artists.createOrReplaceTempView("artists_table")
\* The views hold what the two reads give; none is registered when the read
\* of artists raises.
ReadArtistsOutput ==
    /\ pc = "log_read_artists"
    /\ \E raises \in read_artists_raises(store) :
         IF raises
         THEN /\ song_df' = song_df
              /\ df_artists' = df_artists
              /\ io' = io
              /\ pc' = "AnalysisException"
         ELSE /\ song_df' = read_songs(store["songs"])
              /\ df_artists' = read_artists(store["artists"])
              /\ io' = Append(io, "read:artists")
              /\ pc' = "log_write_songplays"
    /\ UNCHANGED <<call, config, environ, spark, store, inputs,
                   df, log_df, time_df, history>>

\* songplays_table = spark.sql(...); songplays_table.write.mode('overwrite')
\*     .partitionBy("year","month").parquet(output_data+"songsplay/")
\* How the engine spreads the joined rows over partitions, and so which id
\* each row gets, is the engine's choice.
WriteSongplays ==
    /\ pc = "log_write_songplays"
    /\ \E rows \in {songplays_table(time_df, song_df, df_artists, order, k) :
                      order \in RowOrders(Len(songplays_join(time_df, song_df, df_artists))),
                      k \in 0..Len(songplays_join(time_df, song_df, df_artists))} :
         store' = [store EXCEPT !["songsplay"] = Overwrite(@, rows)]
    /\ io' = Append(io, "write:songsplay")
    /\ Return
    /\ UNCHANGED <<config, environ, spark, inputs, frames, history>>

\* ------------------------------------------------------------------- runs

\* The script is run again, as a new process, over the same inputs and the
\* output location as the completed run left it.
Rerun ==
    /\ pc = "done"
    /\ run < MaxRuns
    /\ run' = run + 1
    /\ first' = IF run = 1 THEN store ELSE first
    /\ pc' = "config_read"
    /\ call' = 0
    /\ config' = config_read([exists |-> FALSE, sections |-> {}, keys |-> {}])
    /\ environ' = {}
    /\ spark' = FALSE
    /\ df' = <<>>
    /\ log_df' = <<>>
    /\ time_df' = <<>>
    /\ song_df' = <<>>
    /\ df_artists' = <<>>
    /\ io' = <<>>
    /\ UNCHANGED <<store, inputs>>

Next ==
    \/ ReadConfig
    \/ SetAccessKey
    \/ SetSecretKey
    \/ Main
    \/ CreateSparkSession
    \/ ReadSongData
    \/ WriteSongs
    \/ WriteArtists
    \/ ReadLogData
    \/ WriteUsers
    \/ WriteTime
    \/ ReadSongsOutput
    \/ ReadArtistsOutput
    \/ WriteSongplays
    \/ Rerun

Spec == Init /\ [][Next]_vars

\* ----------------------------------------------------------------- claims

\* This process has done the read or write ev.
Did(ev) == \E i \in DOMAIN io : io[i] = ev

\* The log records that are plays.
IsPlay(e) == e.page = "NextSong"

Plays == {i \in DOMAIN log_data : IsPlay(log_data[i])}

RECURSIVE Sum(_)
Sum(s) == IF s = <<>> THEN 0 ELSE Head(s) + Sum(Tail(s))

\* C1: once process_song_data has written them, the songs relation holds no
\* two rows with the same song_id and the artists relation no two rows with
\* the same artist_id.
C1_NoDuplicateIds ==
    /\ Did("write:songs") =>
         \A i \in DOMAIN store["songs"] : \A j \in DOMAIN store["songs"] :
           i # j => store["songs"][i].song_id # store["songs"][j].song_id
    /\ Did("write:artists") =>
         \A i \in DOMAIN store["artists"] : \A j \in DOMAIN store["artists"] :
           i # j => store["artists"][i].artist_id # store["artists"][j].artist_id

\* C2: the songsplay relation written by process_log_data has at most as
\* many rows as the raw log has records with page = 'NextSong'.
C2_FactCountBounded ==
    Did("write:songsplay") => Len(store["songsplay"]) <= Cardinality(Plays)

\* C3: every songsplay row comes from a play event e, a songs row s and an
\* artists row a of the output location with s.title = e.song and
\* a.name = e.artist, and carries s.song_id and a.artist_id; every play event
\* contributes one row per such pair (s, a), so none when its song or its
\* artist matches nothing; and the run does not fail at the join's inputs when
\* a play event matches no songs row or no artists row.
C3_FactRowsFromJoin ==
    /\ Did("write:songsplay") =>
         /\ \A n \in DOMAIN store["songsplay"] :
              \E i \in Plays :
              \E j \in DOMAIN store["songs"] :
              \E k \in DOMAIN store["artists"] :
                LET r == store["songsplay"][n]
                    e == log_data[i]
                    s == store["songs"][j]
                    a == store["artists"][k]
                IN  /\ s.title = e.song
                    /\ a.name = e.artist
                    /\ r.song_id = s.song_id
                    /\ r.artist_id = a.artist_id
                    /\ r.user_id = e.userId
                    /\ r.session_id = e.sessionId
                    /\ e.ts # <<>>
                    /\ r.start_time = <<e.ts[1] \div 1000>>
         /\ Len(store["songsplay"]) =
              Sum([i \in DOMAIN log_data |->
                     IF IsPlay(log_data[i])
                     THEN Cardinality({j \in DOMAIN store["songs"] :
                                         store["songs"][j].title = log_data[i].song})
                          * Cardinality({k \in DOMAIN store["artists"] :
                                           store["artists"][k].name = log_data[i].artist})
                     ELSE 0])
    /\ (\E i \in Plays :
          \/ \A j \in DOMAIN store["songs"] :
               store["songs"][j].title # log_data[i].song
          \/ \A k \in DOMAIN store["artists"] :
               store["artists"][k].name # log_data[i].artist)
       => pc # "AnalysisException"

\* The part of C3 about the rows: every songsplay row is made of a play
\* event, a songs row and an artists row that match on title and on name.
C3_RowsFromMatches ==
    Did("write:songsplay") =>
      \A n \in DOMAIN store["songsplay"] :
        \E i \in Plays :
        \E j \in DOMAIN store["songs"] :
        \E k \in DOMAIN store["artists"] :
          /\ store["songs"][j].title = log_data[i].song
          /\ store["artists"][k].name = log_data[i].artist
          /\ store["songsplay"][n].song_id = store["songs"][j].song_id
          /\ store["songsplay"][n].artist_id = store["artists"][k].artist_id

\* The users row a log record gives.
UserRowOf(e) ==
    [user_id |-> e.userId, first_name |-> e.firstName, last_name |-> e.lastName,
     gender |-> e.gender, level |-> e.level]

\* C4: a log record whose page is not 'NextSong' contributes no row to users,
\* timetable or songsplay: every row of these relations, with all its copies,
\* is accounted for by play events alone; and such a record never fails the
\* run: a run fails only on a play event without ts or on an empty catalog
\* output.
C4_OnlyPlaysDerive ==
    /\ Did("write:users") =>
         \A i \in DOMAIN store["users"] :
           Cardinality({j \in DOMAIN store["users"] :
                          store["users"][j] = store["users"][i]})
           <= Cardinality({j \in Plays : UserRowOf(log_data[j]) = store["users"][i]})
    /\ Did("write:timetable") =>
         \A i \in DOMAIN store["timetable"] :
           Cardinality({j \in DOMAIN store["timetable"] :
                          store["timetable"][j] = store["timetable"][i]})
           <= Cardinality({j \in Plays :
                 /\ log_data[j].ts # <<>>
                 /\ <<log_data[j].ts[1] \div 1000>> = store["timetable"][i].start_time})
    /\ Did("write:songsplay") =>
         \A n \in DOMAIN store["songsplay"] :
           \E i \in Plays :
             LET r == store["songsplay"][n]
                 e == log_data[i]
             IN  /\ r.user_id = e.userId
                 /\ r.level = e.level
                 /\ r.session_id = e.sessionId
                 /\ r.location = e.location
                 /\ r.user_agent = e.userAgent
                 /\ e.ts # <<>>
                 /\ r.start_time = <<e.ts[1] \div 1000>>
    /\ pc = "PythonException" => \E i \in Plays : log_data[i].ts = <<>>
    /\ pc = "AnalysisException" =>
         (store["songs"] = <<>> \/ store["artists"] = <<>>)

\* A completed run over a log that holds a record that is not a play, and a
\* play that gave rows to every relation.
C4_Witness ==
    /\ pc = "done"
    /\ \E i \in DOMAIN log_data : ~IsPlay(log_data[i])
    /\ Len(store["users"]) >= 1
    /\ Len(store["timetable"]) >= 1
    /\ Len(store["songsplay"]) >= 1

SongOps == {"read:song_data", "write:songs", "write:artists"}

LogOps == {"read:log_data", "write:users", "write:timetable", "read:songs",
           "read:artists", "write:songsplay"}

\* C5: every read and write of process_log_data, the read of the songs and
\* artists output included, comes after process_song_data has written songs
\* and then artists in this run, and none of process_song_data's comes after
\* one of process_log_data's.
C5_LogAfterCatalog ==
    /\ \A i \in DOMAIN io :
         io[i] \in LogOps =>
           \E j \in 1..(i - 1) : \E k \in 1..(i - 1) :
             j < k /\ io[j] = "write:songs" /\ io[k] = "write:artists"
    /\ \A i \in DOMAIN io : \A j \in DOMAIN io :
         (io[i] \in LogOps /\ io[j] \in SongOps) => j < i
    /\ pc \in {"log_read", "log_write_users", "log_write_time",
               "log_read_catalog", "log_read_artists",
               "log_write_songplays"} =>
         (Did("write:songs") /\ Did("write:artists")
          /\ pc \notin {"song_read", "song_write_songs", "song_write_artists"})

\* process_log_data has read the catalog output back.
C5_Witness == Did("read:songs") /\ Did("read:artists") /\ pc = "log_write_songplays"

\* A songsplay row without the generated songplay_id.
WithoutId(r) ==
    [start_time |-> r.start_time, month |-> r.month, year |-> r.year,
     user_id |-> r.user_id, level |-> r.level, song_id |-> r.song_id,
     artist_id |-> r.artist_id, session_id |-> r.session_id,
     location |-> r.location, user_agent |-> r.user_agent]

\* The contents of location l in store st, songplay_id left out.
Contents(st, l) ==
    IF l = "songsplay"
    THEN BagOf([i \in DOMAIN st[l] |-> WithoutId(st[l][i])])
    ELSE BagOf(st[l])

\* C6: when a later run over the same inputs completes, every output
\* location holds the contents the first completed run left there
\* (songplay_id aside); and a completed run leaves nothing of what a
\* location held before it.
C6_RerunSameContents ==
    /\ (pc = "done" /\ run >= 2) =>
         \A l \in Locations : Contents(store, l) = Contents(first, l)
    /\ pc = "done" =>
         \A l \in Locations : Range(store[l]) \cap Range(StaleStore[l]) = {}

\* A second run has completed over a location that held stale rows, and
\* left fact rows.
C6_Witness ==
    /\ pc = "done"
    /\ run = 2
    /\ Len(store["songsplay"]) >= 1
    /\ Len(store["users"]) >= 1

\* The settings file exists and its AWS section holds both keys.
SettingsComplete ==
    /\ dl_cfg.exists
    /\ "AWS" \in dl_cfg.sections
    /\ {"AWS_ACCESS_KEY_ID", "AWS_SECRET_ACCESS_KEY"} \subseteq dl_cfg.keys

\* C7: when the settings file is missing or lacks the AWS section or one of
\* its two keys, the process never gets past the module's settings lines: no
\* engine handle, no call of main, no read, no write, the output location as
\* it was; and KeyError is raised only for such settings.
C7_ConfigErrorFirst ==
    /\ ~SettingsComplete =>
         /\ pc \in {"config_read", "set_access_key", "set_secret_key", "KeyError"}
         /\ spark = FALSE
         /\ call = 0
         /\ io = <<>>
         /\ store \in {EmptyStore, StaleStore}
         /\ pc = "set_secret_key" => "AWS_SECRET_ACCESS_KEY" \notin dl_cfg.keys
    /\ pc = "KeyError" => ~SettingsComplete

\* The process has failed on a settings file that lacks only the second key.
C7_Witness ==
    /\ pc = "KeyError"
    /\ dl_cfg.exists
    /\ dl_cfg.keys = {"AWS_ACCESS_KEY_ID"}
    /\ environ = {"AWS_ACCESS_KEY_ID"}

\* C8: once written, songs has no row with a null song_id, artists none with
\* a null artist_id and users none with a null user_id; and the run does not
\* fail on a record with a null identifier.
C8_NoNullIds ==
    /\ Did("write:songs") =>
         \A i \in DOMAIN store["songs"] : store["songs"][i].song_id # NULL
    /\ Did("write:artists") =>
         \A i \in DOMAIN store["artists"] : store["artists"][i].artist_id # NULL
    /\ Did("write:users") =>
         \A i \in DOMAIN store["users"] : store["users"][i].user_id # NULL
    /\ (\/ \E i \in DOMAIN song_data :
             song_data[i].song_id = NULL \/ song_data[i].artist_id = NULL
        \/ \E i \in DOMAIN log_data : log_data[i].userId = NULL)
       => pc # "AnalysisException"

\* C9: once written, the users relation holds no two identical rows.
C9_UsersDistinct ==
    Did("write:users") =>
      \A i \in DOMAIN store["users"] : \A j \in DOMAIN store["users"] :
        i # j => store["users"][i] # store["users"][j]

\* C10: timetable gets a row for every play event whose ts is not null, and
\* a play event whose ts is null is dropped without aborting the run.
C10_NullTsDropped ==
    /\ Did("write:timetable") =>
         Len(store["timetable"]) =
           Cardinality({i \in Plays : log_data[i].ts # <<>>})
    /\ pc # "PythonException"

====
